---- MODULE Spec2Model ----
(***************************************************************************)
(* A model of chinese_calendar/api.py: the HTTP query layer over the       *)
(* calendar tables.  A text is a sequence of one-character strings, a date *)
(* is a record [year, month, day] as datetime.date stores it, an           *)
(* Optional[str] is a sequence of zero or one texts, a raised ValueError   *)
(* is a result record with ok = FALSE carrying the message.                *)
(***************************************************************************)
EXTENDS Integers, Sequences, FiniteSets, TLC

VARIABLES calendar, pc, request, response, mainpc, serving, listening, threads

vars == <<calendar, pc, request, response, mainpc, serving, listening, threads>>

(***************************************************************************)
(* Bounds of the model.                                                    *)
(***************************************************************************)
\* the longest repeated `dates=` list a request carries
MaxDates == 2
\* the most values a request repeats `date=` or `type=` with
MaxValues == 2
\* the most connections accepted over one run of the server
MaxInFlight == 2

(***************************************************************************)
(* Texts.                                                                  *)
(***************************************************************************)
DigitChars == <<"0", "1", "2", "3", "4", "5", "6", "7", "8", "9">>

IsDigit(c) == \E i \in 1..10 : DigitChars[i] = c

DigitVal(c) == (CHOOSE i \in 1..10 : DigitChars[i] = c) - 1

UpperChars == <<"A", "B", "C", "D", "E", "F", "G", "H", "I", "J", "K", "L", "M",
                "N", "O", "P", "Q", "R", "S", "T", "U", "V", "W", "X", "Y", "Z">>

LowerChars == <<"a", "b", "c", "d", "e", "f", "g", "h", "i", "j", "k", "l", "m",
                "n", "o", "p", "q", "r", "s", "t", "u", "v", "w", "x", "y", "z">>

\* str.lower() on one character
LowerChar(c) ==
    IF \E i \in 1..26 : UpperChars[i] = c
    THEN LowerChars[CHOOSE i \in 1..26 : UpperChars[i] = c]
    ELSE c

\* str.lower()
Lower(text) == [i \in 1..Len(text) |-> LowerChar(text[i])]

\* the code point order of the characters that occur in the type names
CharOrder == <<"-", "a", "b", "d", "e", "g", "h", "i", "k", "l", "n", "o", "r",
               "s", "t", "u", "w", "y">>

Ord(c) == CHOOSE i \in 1..Len(CharOrder) : CharOrder[i] = c

\* str.__lt__: lexicographic by code point, a proper prefix first
RECURSIVE StrLess(_, _)
StrLess(a, b) ==
    IF a = <<>> THEN b # <<>>
    ELSE IF b = <<>> THEN FALSE
    ELSE IF a[1] # b[1] THEN Ord(a[1]) < Ord(b[1])
    ELSE StrLess(Tail(a), Tail(b))

\* sep.join(parts)
RECURSIVE Join(_, _)
Join(sep, parts) ==
    IF parts = <<>> THEN <<>>
    ELSE IF Len(parts) = 1 THEN parts[1]
    ELSE parts[1] \o sep \o Join(sep, Tail(parts))

\* sorted(names), by insertion
RECURSIVE Insert(_, _)
Insert(x, sortedSeq) ==
    IF sortedSeq = <<>> THEN <<x>>
    ELSE IF StrLess(x, sortedSeq[1]) THEN <<x>> \o sortedSeq
    ELSE <<sortedSeq[1]>> \o Insert(x, Tail(sortedSeq))

RECURSIVE Sorted(_)
Sorted(names) ==
    IF names = <<>> THEN <<>> ELSE Insert(names[1], Sorted(Tail(names)))

(***************************************************************************)
(* datetime.date.                                                          *)
(***************************************************************************)
IsLeap(year) == year % 4 = 0 /\ (year % 100 # 0 \/ year % 400 = 0)

DaysInMonth(year, month) ==
    IF month = 2 THEN (IF IsLeap(year) THEN 29 ELSE 28)
    ELSE IF month \in {4, 6, 9, 11} THEN 30 ELSE 31

DaysBeforeYear(year) ==
    LET y == year - 1 IN y * 365 + (y \div 4) - (y \div 100) + (y \div 400)

RECURSIVE DaysBeforeMonth(_, _)
DaysBeforeMonth(year, month) ==
    IF month = 1 THEN 0
    ELSE DaysBeforeMonth(year, month - 1) + DaysInMonth(year, month - 1)

\* date.toordinal()
toordinal(d) == DaysBeforeYear(d.year) + DaysBeforeMonth(d.year, d.month) + d.day

\* date.weekday(): Monday is 0, Sunday is 6
weekday(d) == (toordinal(d) + 6) % 7

\* date.__lt__: dates compare as (year, month, day)
DateLess(a, b) ==
    \/ a.year < b.year
    \/ a.year = b.year /\ a.month < b.month
    \/ a.year = b.year /\ a.month = b.month /\ a.day < b.day

\* date + timedelta(days=1)
NextDay(d) ==
    IF d.day < DaysInMonth(d.year, d.month)
    THEN [d EXCEPT !.day = d.day + 1]
    ELSE IF d.month < 12
    THEN [year |-> d.year, month |-> d.month + 1, day |-> 1]
    ELSE [year |-> d.year + 1, month |-> 1, day |-> 1]

\* "%0*d" % (width, n)
RECURSIVE ZeroPad(_, _)
ZeroPad(n, width) ==
    IF width = 0 THEN <<>>
    ELSE ZeroPad(n \div 10, width - 1) \o <<DigitChars[(n % 10) + 1]>>

\* date.isoformat(): "%04d-%02d-%02d"
isoformat(d) ==
    ZeroPad(d.year, 4) \o <<"-">> \o ZeroPad(d.month, 2) \o <<"-">> \o ZeroPad(d.day, 2)

\* int() of a run of decimal digits
RECURSIVE DigitsVal(_)
DigitsVal(digits) ==
    IF digits = <<>> THEN 0
    ELSE 10 * DigitsVal(SubSeq(digits, 1, Len(digits) - 1)) + DigitVal(digits[Len(digits)])

\* the shape YYYY-MM-DD, the one form every version of fromisoformat accepts
\* (the requests below carry no text that only later versions accept)
IsIsoShape(value) ==
    /\ Len(value) = 10
    /\ value[5] = "-"
    /\ value[8] = "-"
    /\ \A i \in {1, 2, 3, 4, 6, 7, 9, 10} : IsDigit(value[i])

\* date(year, month, day) names a day of the calendar
IsDay(year, month, day) ==
    /\ year >= 1
    /\ month \in 1..12
    /\ day \in 1..DaysInMonth(year, month)

(***************************************************************************)
(* Results of a call: a value, or the ValueError it raised.                *)
(***************************************************************************)
Ok(v) == [ok |-> TRUE, value |-> v]

\* ValueError(fmt.format(*args))
Raise(fmt, args) == [ok |-> FALSE, detail |-> [fmt |-> fmt, args |-> args]]

\* date(year, month, day), or the ValueError _parse_date raises for `value`
DateOrError(value, year, month, day) ==
    IF IsDay(year, month, day)
    THEN Ok([year |-> year, month |-> month, day |-> day])
    ELSE Raise("Invalid date format: {}. Expected YYYY-MM-DD.", <<value>>)

\* datetime.date.fromisoformat(value), its ValueError replaced by _parse_date's
_parse_date(value) ==
    IF IsIsoShape(value)
    THEN DateOrError(value, DigitsVal(SubSeq(value, 1, 4)), DigitsVal(SubSeq(value, 6, 7)),
                     DigitsVal(SubSeq(value, 9, 10)))
    ELSE Raise("Invalid date format: {}. Expected YYYY-MM-DD.", <<value>>)

(***************************************************************************)
(* chinese_calendar.utils over the calendar tables.  The tables hold the   *)
(* days the official calendar names: `holidays` the public rest days,      *)
(* `workdays` the weekend days redesignated as working days,               *)
(* `in_lieu_days` the rest days taken in lieu.                             *)
(***************************************************************************)
Date(y, m, d) == [year |-> y, month |-> m, day |-> d]

is_workday(date) ==
    \/ date \in calendar.workdays
    \/ weekday(date) <= 4 /\ date \notin calendar.holidays

is_holiday(date) == ~is_workday(date)

is_in_lieu(date) == date \in calendar.in_lieu_days

\* (is_holiday, holiday_name): the name is None unless the day is a named holiday
get_holiday_detail(date) ==
    <<is_holiday(date), IF date \in calendar.holidays THEN "Spring Festival" ELSE "None">>

is_interbank_trading_day(date) == is_workday(date)

is_a_share_trading_day(date) == is_workday(date) /\ weekday(date) \in 0..4

\* every date from start to end inclusive, ascending; InvalidRange if end < start
RECURSIVE DatesFrom(_, _)
DatesFrom(start, end) ==
    IF start = end THEN <<start>> ELSE <<start>> \o DatesFrom(NextDay(start), end)

get_dates(start, end) ==
    IF DateLess(end, start) THEN Raise("InvalidRange", <<>>) ELSE Ok(DatesFrom(start, end))

\* a function value: the predicates the handlers are built over
Call(func, date) ==
    CASE func = "is_holiday" -> is_holiday(date)
      [] func = "is_workday" -> is_workday(date)
      [] func = "is_in_lieu" -> is_in_lieu(date)
      [] func = "is_interbank_trading_day" -> is_interbank_trading_day(date)
      [] func = "is_a_share_trading_day" -> is_a_share_trading_day(date)

\* list(filter(keep, dates))
RECURSIVE Filter(_, _, _)
Filter(func, dropWeekends, dates) ==
    IF dates = <<>> THEN <<>>
    ELSE IF Call(func, dates[1]) /\ (dropWeekends => weekday(dates[1]) <= 4)
    THEN <<dates[1]>> \o Filter(func, dropWeekends, Tail(dates))
    ELSE Filter(func, dropWeekends, Tail(dates))

\* the dates of an expanded range the predicate keeps
FilterDates(func, include_weekends, dates) ==
    IF dates.ok THEN Ok(Filter(func, ~include_weekends, dates.value)) ELSE dates

\* expands the range, keeps the dates the predicate holds of, and without
\* include_weekends drops Saturdays and Sundays whatever the predicate says
filter_range(start, end, func, include_weekends) ==
    FilterDates(func, include_weekends, get_dates(start, end))

get_holidays(start, end, include_weekends) ==
    filter_range(start, end, "is_holiday", include_weekends)

get_workdays(start, end, include_weekends) ==
    filter_range(start, end, "is_workday", include_weekends)

get_interbank_trading_days(start, end) ==
    filter_range(start, end, "is_interbank_trading_day", TRUE)

get_a_share_trading_days(start, end) ==
    filter_range(start, end, "is_a_share_trading_day", TRUE)

__version__ == "version"

(***************************************************************************)
(* chinese_calendar/api.py.  A query is parse_qs's dict: each parameter    *)
(* its list of values in order of appearance, <<>> when the key is absent. *)
(***************************************************************************)
T_holiday == <<"h", "o", "l", "i", "d", "a", "y">>
T_workday == <<"w", "o", "r", "k", "d", "a", "y">>
T_in_lieu == <<"i", "n", "-", "l", "i", "e", "u">>
T_interbank_trading_day ==
    <<"i", "n", "t", "e", "r", "b", "a", "n", "k", "-",
      "t", "r", "a", "d", "i", "n", "g", "-", "d", "a", "y">>
T_a_share_trading_day ==
    <<"a", "-", "s", "h", "a", "r", "e", "-",
      "t", "r", "a", "d", "i", "n", "g", "-", "d", "a", "y">>

\* the dict's keys in insertion order, and the checker under each
TYPE_CHECKERS ==
    <<[key |-> T_holiday, checker |-> "is_holiday"],
      [key |-> T_workday, checker |-> "is_workday"],
      [key |-> T_in_lieu, checker |-> "is_in_lieu"],
      [key |-> T_interbank_trading_day, checker |-> "is_interbank_trading_day"],
      [key |-> T_a_share_trading_day, checker |-> "is_a_share_trading_day"]>>

\* First, had the handlers read the last value of a repeated parameter
First_last_value(values) == IF values = <<>> THEN <<>> ELSE <<values[Len(values)]>>

\* query.get(name, [None])[0]: <<>> is None, <<v>> is the first value
First(values) == IF values = <<>> THEN <<>> ELSE <<values[1]>>

\* bool(value) of an Optional[str]: neither None nor ""
Truthy(opt) == opt # <<>> /\ opt[1] # <<>>

\* the list of the parsed dates, or the ValueError of the first element that fails
CollectParsed(parsed) ==
    IF \A i \in 1..Len(parsed) : parsed[i].ok
    THEN Ok([i \in 1..Len(parsed) |-> parsed[i].value])
    ELSE parsed[CHOOSE i \in 1..Len(parsed) :
                  ~parsed[i].ok /\ \A j \in 1..(i - 1) : parsed[j].ok]

\* [_parse_date(d) for d in dates]
ParseEach(dates) == CollectParsed([i \in 1..Len(dates) |-> _parse_date(dates[i])])

\* CollectRange, had _collect_dates not compared end with start
CollectRange_unchecked(start_date, end_date) ==
    IF ~start_date.ok THEN start_date
    ELSE IF ~end_date.ok THEN end_date
    ELSE get_dates(start_date.value, end_date.value)

\* the list without its last element
AllButLast(dates) ==
    IF dates.ok THEN Ok(SubSeq(dates.value, 1, Len(dates.value) - 1)) ELSE dates

\* CollectRange, had the range been expanded up to but not including end
CollectRange_end_excluded(start_date, end_date) ==
    IF ~start_date.ok THEN start_date
    ELSE IF ~end_date.ok THEN end_date
    ELSE IF DateLess(end_date.value, start_date.value)
    THEN Raise("end date must not be earlier than start date", <<>>)
    ELSE AllButLast(get_dates(start_date.value, end_date.value))

\* _collect_dates from the parsed start and end on
CollectRange(start_date, end_date) ==
    IF ~start_date.ok THEN start_date
    ELSE IF ~end_date.ok THEN end_date
    ELSE IF DateLess(end_date.value, start_date.value)
    THEN Raise("end date must not be earlier than start date", <<>>)
    ELSE get_dates(start_date.value, end_date.value)

\* _collect_dates, had it looked at start and end before the list
_collect_dates_range_first(dates, start, end) ==
    IF Truthy(start) /\ Truthy(end)
    THEN CollectRange(_parse_date(start[1]), _parse_date(end[1]))
    ELSE IF dates # <<>> THEN ParseEach(dates)
    ELSE Raise("Provide either repeated 'dates' parameters or both 'start' and 'end'.", <<>>)

_collect_dates(dates, start, end) ==
    IF dates # <<>> THEN ParseEach(dates)
    ELSE IF Truthy(start) /\ Truthy(end)
    THEN CollectRange(_parse_date(start[1]), _parse_date(end[1]))
    ELSE Raise("Provide either repeated 'dates' parameters or both 'start' and 'end'.", <<>>)

_health_handler(query) == Ok([status |-> "ok", version |-> __version__])

\* {"results": [record(date) for date in dates]}, or the ValueError `dates` is
FlagResults(func, key, dates) ==
    IF ~dates.ok THEN dates
    ELSE Ok([results |->
               [i \in 1..Len(dates.value) |->
                  [date |-> isoformat(dates.value[i])] @@ (key :> Call(func, dates.value[i]))]])

_flag_handler(func, key, query) ==
    FlagResults(func, key,
                _collect_dates(query.dates, First(query.start), First(query.end)))

InterbankResults(dates) ==
    IF ~dates.ok THEN dates
    ELSE Ok([results |->
               [i \in 1..Len(dates.value) |->
                  [date |-> isoformat(dates.value[i]),
                   is_interbank_trading_day |-> is_interbank_trading_day(dates.value[i])]]])

_interbank_handler(query) ==
    InterbankResults(_collect_dates(query.dates, First(query.start), First(query.end)))

\* AShareResults, had the handler called the interbank predicate
AShareResults_interbank(dates) ==
    IF ~dates.ok THEN dates
    ELSE Ok([results |->
               [i \in 1..Len(dates.value) |->
                  [date |-> isoformat(dates.value[i]),
                   is_a_share_trading_day |-> is_interbank_trading_day(dates.value[i])]]])

AShareResults(dates) ==
    IF ~dates.ok THEN dates
    ELSE Ok([results |->
               [i \in 1..Len(dates.value) |->
                  [date |-> isoformat(dates.value[i]),
                   is_a_share_trading_day |-> is_a_share_trading_day(dates.value[i])]]])

_a_share_handler(query) ==
    AShareResults(_collect_dates(query.dates, First(query.start), First(query.end)))

\* {"date": ..., "is_holiday": is_holiday_flag, "holiday_name": name}
DetailRecord(date, detail) ==
    [date |-> isoformat(date), is_holiday |-> detail[1], holiday_name |-> detail[2]]

DetailResults(dates) ==
    IF ~dates.ok THEN dates
    ELSE Ok([results |->
               [i \in 1..Len(dates.value) |->
                  DetailRecord(dates.value[i], get_holiday_detail(dates.value[i]))]])

_holiday_detail_handler(query) ==
    DetailResults(_collect_dates(query.dates, First(query.start), First(query.end)))

\* TYPE_CHECKERS[type_value]; KeyError when no key equals it
HasChecker(type_value) == \E i \in 1..Len(TYPE_CHECKERS) : TYPE_CHECKERS[i].key = type_value

CheckerOf(type_value) ==
    TYPE_CHECKERS[CHOOSE i \in 1..Len(TYPE_CHECKERS) : TYPE_CHECKERS[i].key = type_value].checker

\* ", ".join(sorted(TYPE_CHECKERS.keys()))
Supported ==
    Join(<<",", " ">>, Sorted([i \in 1..Len(TYPE_CHECKERS) |-> TYPE_CHECKERS[i].key]))

\* _type_check_handler from the parsed date on
TypeResult(type_value, checker, date) ==
    IF ~date.ok THEN date
    ELSE Ok([date |-> isoformat(date.value), type |-> type_value,
             result |-> Call(checker, date.value)])

\* TypeCheck, had the date been parsed before the type was looked up
TypeCheck_date_first(date_value, type_value) ==
    IF ~Truthy(date_value)
    THEN Raise("'date' query parameter is required for this endpoint.", <<>>)
    ELSE IF ~Truthy(type_value)
    THEN Raise("'type' query parameter is required for this endpoint.", <<>>)
    ELSE IF ~_parse_date(date_value[1]).ok
    THEN _parse_date(date_value[1])
    ELSE IF ~HasChecker(type_value[1])
    THEN Raise("Unknown type '{}'. Supported types: {}.", <<type_value[1], Supported>>)
    ELSE TypeResult(type_value[1], CheckerOf(type_value[1]), _parse_date(date_value[1]))

\* _type_check_handler from the two first values on
TypeCheck(date_value, type_value) ==
    IF ~Truthy(date_value)
    THEN Raise("'date' query parameter is required for this endpoint.", <<>>)
    ELSE IF ~Truthy(type_value)
    THEN Raise("'type' query parameter is required for this endpoint.", <<>>)
    ELSE IF ~HasChecker(type_value[1])
    THEN Raise("Unknown type '{}'. Supported types: {}.", <<type_value[1], Supported>>)
    ELSE TypeResult(type_value[1], CheckerOf(type_value[1]), _parse_date(date_value[1]))

_type_check_handler(query) == TypeCheck(First(query.date), First(query.type))

\* value.lower() looked up in the two sets of words
BoolOfLowered(lowered) ==
    IF lowered \in {<<"t", "r", "u", "e">>, <<"1">>, <<"y", "e", "s">>, <<"o", "n">>}
    THEN Ok(TRUE)
    ELSE IF lowered \in {<<"f", "a", "l", "s", "e">>, <<"0">>, <<"n", "o">>, <<"o", "f", "f">>}
    THEN Ok(FALSE)
    ELSE Raise("Boolean parameters accept true/false/1/0/yes/no/on/off", <<>>)

\* _parse_bool, had the value not been lowered
_parse_bool_case_sensitive(value, default) ==
    IF value = <<>> THEN Ok(default) ELSE BoolOfLowered(value[1])

_parse_bool(value, default) ==
    IF value = <<>> THEN Ok(default) ELSE BoolOfLowered(Lower(value[1]))

\* _range_required from the parsed start and end on: (start_date, end_date)
RequiredRange(start_date, end_date) ==
    IF ~start_date.ok THEN start_date
    ELSE IF ~end_date.ok THEN end_date
    ELSE IF DateLess(end_date.value, start_date.value)
    THEN Raise("end date must not be earlier than start date", <<>>)
    ELSE Ok([start |-> start_date.value, end |-> end_date.value])

\* _range_required from the two first values on
RangeOf(start, end) ==
    IF ~Truthy(start) \/ ~Truthy(end)
    THEN Raise("'start' and 'end' query parameters are required for this endpoint.", <<>>)
    ELSE RequiredRange(_parse_date(start[1]), _parse_date(end[1]))

_range_required(query) == RangeOf(First(query.start), First(query.end))

\* func(start, end, include_weekends) or func(start, end)
CallRange(func, start, end, include_weekends) ==
    CASE func = "get_holidays" -> get_holidays(start, end, include_weekends)
      [] func = "get_workdays" -> get_workdays(start, end, include_weekends)
      [] func = "get_interbank_trading_days" -> get_interbank_trading_days(start, end)
      [] func = "get_a_share_trading_days" -> get_a_share_trading_days(start, end)

\* {key: [day.isoformat() for day in days]}
DayList(key, days) ==
    IF ~days.ok THEN days
    ELSE Ok(key :> [i \in 1..Len(days.value) |-> isoformat(days.value[i])])

\* the handler from the range and the parsed include_weekends on
RangeList(func, key, range, include_weekends) ==
    IF ~range.ok THEN range
    ELSE IF ~include_weekends.ok THEN include_weekends
    ELSE DayList(key, CallRange(func, range.value.start, range.value.end,
                                include_weekends.value))

\* _range_list_handler, had include_weekends been parsed but not passed on
_range_list_handler_weekends_kept(func, key, include_weekends_supported, query) ==
    RangeList(func, key, _range_required(query),
              IF include_weekends_supported
                 /\ ~_parse_bool(First(query.include_weekends), TRUE).ok
              THEN _parse_bool(First(query.include_weekends), TRUE)
              ELSE Ok(TRUE))

_range_list_handler(func, key, include_weekends_supported, query) ==
    RangeList(func, key, _range_required(query),
              IF include_weekends_supported
              THEN _parse_bool(First(query.include_weekends), TRUE)
              ELSE Ok(TRUE))

\* routes, had the two trading-day list routes been built with include_weekends_supported
routes_lists_take_include_weekends ==
    ("/api/health" :> [handler |-> "_health_handler"]) @@
    ("/api/workdays" :>
        [handler |-> "_flag_handler", func |-> "is_workday", key |-> "is_workday"]) @@
    ("/api/holidays" :>
        [handler |-> "_flag_handler", func |-> "is_holiday", key |-> "is_holiday"]) @@
    ("/api/in-lieu" :>
        [handler |-> "_flag_handler", func |-> "is_in_lieu", key |-> "is_in_lieu"]) @@
    ("/api/holiday/detail" :> [handler |-> "_holiday_detail_handler"]) @@
    ("/api/date/type" :> [handler |-> "_type_check_handler"]) @@
    ("/api/holidays/range" :>
        [handler |-> "_range_list_handler", func |-> "get_holidays", key |-> "holidays",
         include_weekends_supported |-> TRUE]) @@
    ("/api/workdays/range" :>
        [handler |-> "_range_list_handler", func |-> "get_workdays", key |-> "workdays",
         include_weekends_supported |-> TRUE]) @@
    ("/api/interbank/trading-days" :> [handler |-> "_interbank_handler"]) @@
    ("/api/a-share/trading-days" :> [handler |-> "_a_share_handler"]) @@
    ("/api/interbank/trading-days/list" :>
        [handler |-> "_range_list_handler", func |-> "get_interbank_trading_days",
         key |-> "interbank_trading_days", include_weekends_supported |-> TRUE]) @@
    ("/api/a-share/trading-days/list" :>
        [handler |-> "_range_list_handler", func |-> "get_a_share_trading_days",
         key |-> "a_share_trading_days", include_weekends_supported |-> TRUE])

\* the closures of the route table: the handler and what it captured
routes ==
    ("/api/health" :> [handler |-> "_health_handler"]) @@
    ("/api/workdays" :>
        [handler |-> "_flag_handler", func |-> "is_workday", key |-> "is_workday"]) @@
    ("/api/holidays" :>
        [handler |-> "_flag_handler", func |-> "is_holiday", key |-> "is_holiday"]) @@
    ("/api/in-lieu" :>
        [handler |-> "_flag_handler", func |-> "is_in_lieu", key |-> "is_in_lieu"]) @@
    ("/api/holiday/detail" :> [handler |-> "_holiday_detail_handler"]) @@
    ("/api/date/type" :> [handler |-> "_type_check_handler"]) @@
    ("/api/holidays/range" :>
        [handler |-> "_range_list_handler", func |-> "get_holidays", key |-> "holidays",
         include_weekends_supported |-> TRUE]) @@
    ("/api/workdays/range" :>
        [handler |-> "_range_list_handler", func |-> "get_workdays", key |-> "workdays",
         include_weekends_supported |-> TRUE]) @@
    ("/api/interbank/trading-days" :> [handler |-> "_interbank_handler"]) @@
    ("/api/a-share/trading-days" :> [handler |-> "_a_share_handler"]) @@
    ("/api/interbank/trading-days/list" :>
        [handler |-> "_range_list_handler", func |-> "get_interbank_trading_days",
         key |-> "interbank_trading_days", include_weekends_supported |-> FALSE]) @@
    ("/api/a-share/trading-days/list" :>
        [handler |-> "_range_list_handler", func |-> "get_a_share_trading_days",
         key |-> "a_share_trading_days", include_weekends_supported |-> FALSE])

\* handler(parse_qs(parsed.query))
CallHandler(h, query) ==
    CASE h.handler = "_health_handler" -> _health_handler(query)
      [] h.handler = "_flag_handler" -> _flag_handler(h.func, h.key, query)
      [] h.handler = "_holiday_detail_handler" -> _holiday_detail_handler(query)
      [] h.handler = "_type_check_handler" -> _type_check_handler(query)
      [] h.handler = "_interbank_handler" -> _interbank_handler(query)
      [] h.handler = "_a_share_handler" -> _a_share_handler(query)
      [] h.handler = "_range_list_handler" ->
            _range_list_handler(h.func, h.key, h.include_weekends_supported, query)

\* the response _json_response writes: the status and the payload
_json_response(status, payload) == [status |-> status, body |-> payload]

NOT_FOUND == 404
BAD_REQUEST == 400
OK == 200

\* the response to what the handler returned or raised
ResponseOf(payload) ==
    IF ~payload.ok
    THEN _json_response(BAD_REQUEST, [detail |-> payload.detail])
    ELSE _json_response(OK, payload.value)

do_GET(path, query) ==
    IF path \notin DOMAIN routes
    THEN _json_response(NOT_FOUND, [detail |-> [fmt |-> "Not Found", args |-> <<>>]])
    ELSE ResponseOf(CallHandler(routes[path], query))

(***************************************************************************)
(* Requests.                                                               *)
(***************************************************************************)
T_2018_02_10 == <<"2", "0", "1", "8", "-", "0", "2", "-", "1", "0">>
T_2018_02_11 == <<"2", "0", "1", "8", "-", "0", "2", "-", "1", "1">>
T_2018_02_12 == <<"2", "0", "1", "8", "-", "0", "2", "-", "1", "2">>
T_2018_03_01 == <<"2", "0", "1", "8", "-", "0", "3", "-", "0", "1">>
\* no such day
T_2018_02_30 == <<"2", "0", "1", "8", "-", "0", "2", "-", "3", "0">>
\* not YYYY-MM-DD
T_2018_2_11 == <<"2", "0", "1", "8", "-", "2", "-", "1", "1">>

\* the values of `dates=`
DateTexts == {T_2018_02_10, T_2018_02_11, T_2018_02_12, T_2018_03_01, T_2018_2_11}

\* the values of `start=` and `end=`
RangeTexts == {T_2018_02_10, T_2018_02_12, T_2018_03_01, T_2018_02_30}

\* the values of `date=`
DateValueTexts == {T_2018_02_11, T_2018_03_01, T_2018_2_11}

\* the values of `type=`
TypeTexts ==
    {T_holiday, T_workday, T_in_lieu, T_interbank_trading_day, T_a_share_trading_day,
     <<"H", "o", "l", "i", "d", "a", "y">>, <<"u", "n", "k", "n", "o", "w", "n">>}

\* the values of `include_weekends=`
BoolTexts ==
    {<<"t", "r", "u", "e">>, <<"T", "R", "U", "E">>, <<"1">>, <<"Y", "e", "s">>,
     <<"o", "N">>, <<"f", "a", "l", "s", "e">>, <<"F", "a", "l", "s", "e">>, <<"0">>,
     <<"N", "O">>, <<"o", "f", "f">>, <<"m", "a", "y", "b", "e">>, <<"2">>}

\* the lists of at most n values from S
SeqsUpTo(S, n) == UNION {[1..k -> S] : k \in 0..n}

\* a parameter given at most once
AtMostOnce(S) == SeqsUpTo(S, 1)

EmptyQuery ==
    [dates |-> <<>>, start |-> <<>>, end |-> <<>>, date |-> <<>>, type |-> <<>>,
     include_weekends |-> <<>>]

PerDatePaths ==
    {"/api/workdays", "/api/holidays", "/api/in-lieu", "/api/holiday/detail",
     "/api/interbank/trading-days", "/api/a-share/trading-days"}

RangeListPaths ==
    {"/api/holidays/range", "/api/workdays/range", "/api/interbank/trading-days/list",
     "/api/a-share/trading-days/list"}

NoRequest == [path |-> "", query |-> EmptyQuery]

NoResponse == [status |-> 0]

(***************************************************************************)
(* The calendars: the days of 2018-02-10 .. 2018-03-01 the tables name.    *)
(* 2018-02-11 (a Sunday) and 2018-02-24 (a Saturday) are working days, the *)
(* Spring Festival runs from 2018-02-15 to 2018-02-21.                     *)
(***************************************************************************)
SpringFestival == {Date(2018, 2, d) : d \in 15..21}

Calendars ==
    {[holidays |-> SpringFestival \cup extra,
      workdays |-> {Date(2018, 2, 11), Date(2018, 2, 24)},
      in_lieu_days |-> lieu] :
        extra \in SUBSET {Date(2018, 3, 1)},
        lieu \in {{}, {Date(2018, 2, 15), Date(2018, 2, 21)}}}

Init ==
    /\ calendar \in Calendars
    /\ pc = "idle"
    /\ request = NoRequest
    /\ response = NoResponse
    /\ mainpc = "joining"
    /\ serving = TRUE
    /\ listening = TRUE
    /\ threads = <<>>

(***************************************************************************)
(* One request at a time: do_GET from the request line to the response.    *)
(***************************************************************************)
Get(path, query) ==
    /\ request' = [path |-> path, query |-> query]
    /\ response' = do_GET(path, query)
    /\ pc' = "responded"
    /\ UNCHANGED <<calendar, mainpc, serving, listening, threads>>

GetHealth ==
    /\ pc = "idle"
    /\ Get("/api/health", EmptyQuery)

GetPerDate ==
    /\ pc = "idle"
    /\ \E path \in PerDatePaths, dates \in SeqsUpTo(DateTexts, MaxDates),
          start \in AtMostOnce(RangeTexts), end \in AtMostOnce(RangeTexts) :
           Get(path, [EmptyQuery EXCEPT !.dates = dates, !.start = start, !.end = end])

GetDateType ==
    /\ pc = "idle"
    /\ \E date \in SeqsUpTo(DateValueTexts, MaxValues),
          type \in SeqsUpTo(TypeTexts, MaxValues) :
           Get("/api/date/type", [EmptyQuery EXCEPT !.date = date, !.type = type])

GetRangeList ==
    /\ pc = "idle"
    /\ \E path \in RangeListPaths, start \in AtMostOnce(RangeTexts),
          end \in AtMostOnce(RangeTexts), include_weekends \in AtMostOnce(BoolTexts) :
           Get(path, [EmptyQuery EXCEPT !.start = start, !.end = end,
                                        !.include_weekends = include_weekends])

GetUnknownPath ==
    /\ pc = "idle"
    /\ Get("/api/unknown", EmptyQuery)

\* do_GET has returned: the request and its response are discarded
Finish ==
    /\ pc = "responded"
    /\ pc' = "idle"
    /\ request' = NoRequest
    /\ response' = NoResponse
    /\ UNCHANGED <<calendar, mainpc, serving, listening, threads>>

Next ==
    \/ GetHealth
    \/ GetPerDate
    \/ GetDateType
    \/ GetRangeList
    \/ GetUnknownPath
    \/ Finish

Spec == Init /\ [][Next]_vars

(***************************************************************************)
(* run(): the server.  serve_forever accepts a connection and hands it to  *)
(* a thread of its own (ThreadingHTTPServer); the main thread joins the    *)
(* serving thread and, in its finally clause, shuts the server down and    *)
(* closes it.                                                              *)
(***************************************************************************)
\* ThreadingHTTPServer.daemon_threads: the request threads are daemons, which
\* server_close() does not join and which die with the process
daemon_threads == TRUE

\* the requests the clients of this run send
SampleRequests ==
    {[path |-> "/api/health", query |-> EmptyQuery],
     [path |-> "/api/workdays", query |-> [EmptyQuery EXCEPT !.dates = <<T_2018_02_11>>]],
     [path |-> "/api/date/type",
      query |-> [EmptyQuery EXCEPT !.date = <<T_2018_03_01>>, !.type = <<T_holiday>>]]}

\* serve_forever: a connection is accepted and process_request starts its thread
Accept ==
    /\ serving
    /\ listening
    /\ Len(threads) < MaxInFlight
    /\ \E req \in SampleRequests :
          threads' = Append(threads, [request |-> req, state |-> "handling",
                                      response |-> NoResponse])
    /\ UNCHANGED <<calendar, pc, request, response, mainpc, serving, listening>>

\* a request thread runs do_GET to the end: the response is written
HandleRequest ==
    /\ mainpc # "exited"
    /\ \E i \in 1..Len(threads) :
          /\ threads[i].state = "handling"
          /\ threads' = [threads EXCEPT
                           ![i].state = "responded",
                           ![i].response = do_GET(threads[i].request.path,
                                                  threads[i].request.query)]
    /\ UNCHANGED <<calendar, pc, request, response, mainpc, serving, listening>>

\* thread.join() is interrupted
KeyboardInterrupt ==
    /\ mainpc = "joining"
    /\ mainpc' = "finally"
    /\ UNCHANGED <<calendar, pc, request, response, serving, listening, threads>>

\* the serving thread ends on its own
ServeForeverExit ==
    /\ mainpc = "joining"
    /\ serving
    /\ serving' = FALSE
    /\ UNCHANGED <<calendar, pc, request, response, mainpc, listening, threads>>

\* thread.join() returns
JoinReturns ==
    /\ mainpc = "joining"
    /\ ~serving
    /\ mainpc' = "finally"
    /\ UNCHANGED <<calendar, pc, request, response, serving, listening, threads>>

\* server.shutdown(): returns once the serve_forever loop has ended
Shutdown ==
    /\ mainpc = "finally"
    /\ serving' = FALSE
    /\ mainpc' = "closing"
    /\ UNCHANGED <<calendar, pc, request, response, listening, threads>>

\* server.server_close(): closes the listening socket, having joined the request
\* threads that are not daemons; run() returns
ServerClose ==
    /\ mainpc = "closing"
    /\ daemon_threads \/ \A i \in 1..Len(threads) : threads[i].state # "handling"
    /\ listening' = FALSE
    /\ mainpc' = "returned"
    /\ UNCHANGED <<calendar, pc, request, response, serving, threads>>

\* run() was the main module's last statement: the process ends, and its
\* daemon threads with it
ProcessExit ==
    /\ mainpc = "returned"
    /\ mainpc' = "exited"
    /\ threads' = [i \in 1..Len(threads) |->
                     IF threads[i].state = "handling"
                     THEN [threads[i] EXCEPT !.state = "killed"]
                     ELSE threads[i]]
    /\ UNCHANGED <<calendar, pc, request, response, serving, listening>>

NextServer ==
    \/ Accept
    \/ HandleRequest
    \/ KeyboardInterrupt
    \/ ServeForeverExit
    \/ JoinReturns
    \/ Shutdown
    \/ ServerClose
    \/ ProcessExit

SpecServer == Init /\ [][NextServer]_vars

\* C9: once shutdown has closed the listening socket and run() has returned,
\* every request that was accepted has had its response written; none is
\* left in flight or abandoned.
C9_GracefulDrain ==
    mainpc \in {"returned", "exited"} =>
        \A i \in 1..Len(threads) : threads[i].state = "responded"

(***************************************************************************)
(* The claims about one request and its response.                          *)
(***************************************************************************)
\* the texts of the requests that name a day, in calendar order
ValidTextsInOrder == <<T_2018_02_10, T_2018_02_11, T_2018_02_12, T_2018_03_01>>

IsValidText(t) == \E i \in 1..Len(ValidTextsInOrder) : ValidTextsInOrder[i] = t

Position(t) == CHOOSE i \in 1..Len(ValidTextsInOrder) : ValidTextsInOrder[i] = t

\* the proleptic Gregorian ordinals of those days
OrdinalOf(t) ==
    CASE t = T_2018_02_10 -> 736735
      [] t = T_2018_02_11 -> 736736
      [] t = T_2018_02_12 -> 736737
      [] t = T_2018_03_01 -> 736754

\* the days 2018-02-10 .. 2018-03-01, in order
WindowDates == [i \in 1..20 |-> IF i <= 19 THEN Date(2018, 2, 9 + i) ELSE Date(2018, 3, 1)]

WindowIndex(t) == CHOOSE i \in 1..20 : isoformat(WindowDates[i]) = t

\* start and end are each given once, name days, and end is not before start
HasValidRange(query) ==
    /\ Len(query.start) = 1 /\ IsValidText(query.start[1])
    /\ Len(query.end) = 1 /\ IsValidText(query.end[1])
    /\ Position(query.start[1]) <= Position(query.end[1])

\* start and end are each given once, name days, and end is before start
HasReversedRange(query) ==
    /\ Len(query.start) = 1 /\ IsValidText(query.start[1])
    /\ Len(query.end) = 1 /\ IsValidText(query.end[1])
    /\ Position(query.end[1]) < Position(query.start[1])

FirstInvalid(dates) ==
    dates[CHOOSE i \in 1..Len(dates) :
            ~IsValidText(dates[i]) /\ \A j \in 1..(i - 1) : IsValidText(dates[j])]

\* C1: on the six per-date endpoints a non-empty `dates` list decides the
\* resolved sequence alone, whatever start and end are: when every element
\* names a day, the results are the elements in input order, duplicates kept,
\* one record each; otherwise the request fails on the first element that
\* does not.
C1_ListPrecedence ==
    (pc = "responded" /\ request.path \in PerDatePaths /\ request.query.dates # <<>>) =>
        IF \A i \in 1..Len(request.query.dates) : IsValidText(request.query.dates[i])
        THEN /\ response.status = 200
             /\ Len(response.body.results) = Len(request.query.dates)
             /\ \A i \in 1..Len(request.query.dates) :
                   response.body.results[i].date = request.query.dates[i]
        ELSE /\ response.status = 400
             /\ response.body.detail =
                  [fmt |-> "Invalid date format: {}. Expected YYYY-MM-DD.",
                   args |-> <<FirstInvalid(request.query.dates)>>]

\* a list with a duplicate, sent with a range that names other days
C1_Witness ==
    /\ pc = "responded"
    /\ request.path = "/api/interbank/trading-days"
    /\ request.query.dates = <<T_2018_02_11, T_2018_02_11>>
    /\ request.query.start = <<T_2018_02_10>>
    /\ request.query.end = <<T_2018_03_01>>
    /\ response.status = 200
    /\ Len(response.body.results) = 2

\* C2 as claimed: on every range-consuming endpoint a request whose parsed
\* end is earlier than its parsed start is answered 400.
C2_EndBeforeStartRejected ==
    (/\ pc = "responded"
     /\ request.path \in PerDatePaths \cup RangeListPaths
     /\ HasReversedRange(request.query)) =>
        response.status = 400

\* C2 as amended: such a request is answered 400 with the range message on
\* the four range-list endpoints, and on the six per-date endpoints when it
\* carries no `dates` list; with a `dates` list the per-date endpoints answer
\* as they do to the list alone.
C2_EndBeforeStartRejectedWithoutList ==
    (/\ pc = "responded"
     /\ request.path \in PerDatePaths \cup RangeListPaths
     /\ HasReversedRange(request.query)) =>
        IF request.path \in RangeListPaths \/ request.query.dates = <<>>
        THEN /\ response.status = 400
             /\ response.body.detail =
                  [fmt |-> "end date must not be earlier than start date", args |-> <<>>]
        ELSE response =
               do_GET(request.path, [request.query EXCEPT !.start = <<>>, !.end = <<>>])

C2_Witness ==
    /\ pc = "responded"
    /\ request.path = "/api/holidays"
    /\ request.query.dates = <<>>
    /\ request.query.start = <<T_2018_03_01>>
    /\ request.query.end = <<T_2018_02_10>>
    /\ response.status = 400

\* C3: an A-share trading day is a workday that falls on Monday..Friday, so
\* it is an interbank trading day too, and the two differ exactly on the
\* Saturdays and Sundays that are workdays (2018-02-11 is one); the
\* /api/a-share/trading-days endpoint reports that value for each date.
C3_AShareTradingDay ==
    /\ \A i \in 1..20 :
          /\ is_a_share_trading_day(WindowDates[i]) => is_interbank_trading_day(WindowDates[i])
          /\ (is_interbank_trading_day(WindowDates[i]) # is_a_share_trading_day(WindowDates[i]))
               <=> (weekday(WindowDates[i]) \in {5, 6} /\ is_workday(WindowDates[i]))
    /\ is_interbank_trading_day(Date(2018, 2, 11))
    /\ ~is_a_share_trading_day(Date(2018, 2, 11))
    /\ (pc = "responded" /\ request.path = "/api/a-share/trading-days"
        /\ response.status = 200) =>
          \A i \in 1..Len(response.body.results) :
             response.body.results[i].is_a_share_trading_day =
               (/\ is_workday(WindowDates[WindowIndex(response.body.results[i].date)])
                /\ weekday(WindowDates[WindowIndex(response.body.results[i].date)]) \in 0..4)

\* the test's range: Saturday, the Sunday that is a workday, Monday
C3_Witness ==
    /\ pc = "responded"
    /\ request.path = "/api/a-share/trading-days"
    /\ request.query.dates = <<>>
    /\ request.query.start = <<T_2018_02_10>>
    /\ request.query.end = <<T_2018_02_12>>
    /\ response.status = 200
    /\ response.body.results[2] = [date |-> T_2018_02_11, is_a_share_trading_day |-> FALSE]
    /\ response.body.results[3] = [date |-> T_2018_02_12, is_a_share_trading_day |-> TRUE]
    /\ is_workday(Date(2018, 2, 11))

\* C4: a range query start <= end with no `dates` list on a per-date endpoint
\* has (end - start in days) + 1 records, the first dated start, the last
\* dated end, each one day after the one before it.
C4_RangeExpansion ==
    (/\ pc = "responded"
     /\ request.path \in PerDatePaths
     /\ request.query.dates = <<>>
     /\ HasValidRange(request.query)) =>
        /\ response.status = 200
        /\ Len(response.body.results) =
             OrdinalOf(request.query.end[1]) - OrdinalOf(request.query.start[1]) + 1
        /\ response.body.results[1].date = request.query.start[1]
        /\ response.body.results[Len(response.body.results)].date = request.query.end[1]
        /\ \A i \in 1..(Len(response.body.results) - 1) :
              toordinal(_parse_date(response.body.results[i + 1].date).value) =
                toordinal(_parse_date(response.body.results[i].date).value) + 1

\* a range over the end of February
C4_Witness ==
    /\ pc = "responded"
    /\ request.path = "/api/holiday/detail"
    /\ request.query.dates = <<>>
    /\ request.query.start = <<T_2018_02_12>>
    /\ request.query.end = <<T_2018_03_01>>
    /\ response.status = 200
    /\ Len(response.body.results) = 18

\* C5: on /api/date/type a request with a date and with a type that is not
\* exactly one of the five names is answered 400, the detail listing the five
\* names in sorted order, whether or not the date is well formed.
C5_UnknownType ==
    (/\ pc = "responded"
     /\ request.path = "/api/date/type"
     /\ request.query.date # <<>>
     /\ request.query.type # <<>>
     /\ request.query.type[1] \notin
          {T_holiday, T_workday, T_in_lieu, T_interbank_trading_day, T_a_share_trading_day}) =>
        /\ response.status = 400
        /\ response.body.detail =
             [fmt |-> "Unknown type '{}'. Supported types: {}.",
              args |-> <<request.query.type[1],
                         Join(<<",", " ">>,
                              <<T_a_share_trading_day, T_holiday, T_in_lieu,
                                T_interbank_trading_day, T_workday>>)>>]

\* a name in the wrong case, with a date that is not well formed
C5_Witness ==
    /\ pc = "responded"
    /\ request.path = "/api/date/type"
    /\ request.query.date = <<T_2018_2_11>>
    /\ request.query.type = <<<<"H", "o", "l", "i", "d", "a", "y">>>>
    /\ response.status = 400

\* C6 as claimed: /api/date/type answers 200 only to a request with exactly
\* one `date` and exactly one `type`.
C6_ExactlyOneDateAndType ==
    (pc = "responded" /\ request.path = "/api/date/type" /\ response.status = 200) =>
        Len(request.query.date) = 1 /\ Len(request.query.type) = 1

\* C6 as amended: a request with no `date` or no `type` is answered 400 with
\* the message naming the missing parameter; a request that repeats either is
\* answered as the request with the first value of each alone.
C6_FirstDateAndType ==
    (pc = "responded" /\ request.path = "/api/date/type") =>
        IF request.query.date = <<>>
        THEN /\ response.status = 400
             /\ response.body.detail =
                  [fmt |-> "'date' query parameter is required for this endpoint.",
                   args |-> <<>>]
        ELSE IF request.query.type = <<>>
        THEN /\ response.status = 400
             /\ response.body.detail =
                  [fmt |-> "'type' query parameter is required for this endpoint.",
                   args |-> <<>>]
        ELSE response =
               do_GET(request.path,
                      [request.query EXCEPT !.date = <<request.query.date[1]>>,
                                            !.type = <<request.query.type[1]>>])

\* two different dates, answered for the first
C6_Witness ==
    /\ pc = "responded"
    /\ request.path = "/api/date/type"
    /\ request.query.date = <<T_2018_02_11, T_2018_03_01>>
    /\ request.query.type = <<T_workday>>
    /\ response.status = 200
    /\ response.body.date = T_2018_02_11

\* the two range-list endpoints that take include_weekends
WeekendPaths == {"/api/holidays/range", "/api/workdays/range"}

\* the two range-list endpoints that do not
TradingListPaths == {"/api/interbank/trading-days/list", "/api/a-share/trading-days/list"}

ListKey(path) == IF path = "/api/holidays/range" THEN "holidays" ELSE "workdays"

ListPredicate(path, date) ==
    IF path = "/api/holidays/range" THEN is_holiday(date) ELSE is_workday(date)

TrueWords == {<<"t", "r", "u", "e">>, <<"1">>, <<"y", "e", "s">>, <<"o", "n">>}

FalseWords == {<<"f", "a", "l", "s", "e">>, <<"0">>, <<"n", "o">>, <<"o", "f", "f">>}

\* text is word with some of its letters in upper case
IsCaseVariant(text, word) ==
    /\ Len(text) = Len(word)
    /\ \A i \in 1..Len(word) :
          \/ text[i] = word[i]
          \/ \E k \in 1..26 : LowerChars[k] = word[i] /\ UpperChars[k] = text[i]

IsTrueText(text) == \E word \in TrueWords : IsCaseVariant(text, word)

IsFalseText(text) == \E word \in FalseWords : IsCaseVariant(text, word)

\* the texts of the days of [start, end] the endpoint's predicate holds of,
\* without the Saturdays and Sundays unless weekends are included
KeptDays(path, query, weekends) ==
    {isoformat(WindowDates[i]) :
       i \in {j \in WindowIndex(query.start[1])..WindowIndex(query.end[1]) :
                /\ ListPredicate(path, WindowDates[j])
                /\ weekends \/ weekday(WindowDates[j]) \notin {5, 6}}}

\* list holds exactly the texts of days, in ascending order of the days
IsAscendingListOf(list, days) ==
    /\ \A j \in 1..(Len(list) - 1) : WindowIndex(list[j]) < WindowIndex(list[j + 1])
    /\ {list[j] : j \in 1..Len(list)} = days

\* C7: on /api/holidays/range and /api/workdays/range, with a valid range, an
\* absent include_weekends and every letter-case variant of true/1/yes/on
\* give the list with weekends included, every letter-case variant of
\* false/0/no/off gives the list without them, and any other text is
\* answered 400 (whatever the range).
C7_IncludeWeekendsParsed ==
    (pc = "responded" /\ request.path \in WeekendPaths) =>
        /\ (/\ request.query.include_weekends # <<>>
            /\ ~IsTrueText(request.query.include_weekends[1])
            /\ ~IsFalseText(request.query.include_weekends[1])) => response.status = 400
        /\ HasValidRange(request.query) =>
              IF request.query.include_weekends = <<>>
                 \/ IsTrueText(request.query.include_weekends[1])
              THEN /\ response.status = 200
                   /\ DOMAIN response.body = {ListKey(request.path)}
                   /\ IsAscendingListOf(response.body[ListKey(request.path)],
                                        KeptDays(request.path, request.query, TRUE))
              ELSE IF IsFalseText(request.query.include_weekends[1])
              THEN /\ response.status = 200
                   /\ DOMAIN response.body = {ListKey(request.path)}
                   /\ IsAscendingListOf(response.body[ListKey(request.path)],
                                        KeptDays(request.path, request.query, FALSE))
              ELSE response.body.detail =
                     [fmt |-> "Boolean parameters accept true/false/1/0/yes/no/on/off",
                      args |-> <<>>]

\* "NO" drops the Sunday that is a workday
C7_Witness ==
    /\ pc = "responded"
    /\ request.path = "/api/workdays/range"
    /\ request.query.start = <<T_2018_02_10>>
    /\ request.query.end = <<T_2018_02_12>>
    /\ request.query.include_weekends = <<<<"N", "O">>>>
    /\ response.status = 200
    /\ response.body.workdays = <<T_2018_02_12>>

\* C8: a list returned by /api/holidays/range or /api/workdays/range is in
\* ascending order, holds only days of [start, end] the endpoint's predicate
\* holds of, holds every such day that is not a Saturday or Sunday, holds
\* the Saturdays and Sundays among them too unless include_weekends was
\* given as false, and then holds no Saturday or Sunday at all.
C8_RangeListFiltered ==
    (pc = "responded" /\ request.path \in WeekendPaths /\ response.status = 200) =>
        /\ \A j \in 1..(Len(response.body[ListKey(request.path)]) - 1) :
              WindowIndex(response.body[ListKey(request.path)][j]) <
                WindowIndex(response.body[ListKey(request.path)][j + 1])
        /\ \A j \in 1..Len(response.body[ListKey(request.path)]) :
              /\ WindowIndex(response.body[ListKey(request.path)][j]) \in
                   WindowIndex(request.query.start[1])..WindowIndex(request.query.end[1])
              /\ ListPredicate(request.path,
                   WindowDates[WindowIndex(response.body[ListKey(request.path)][j])])
              /\ (/\ request.query.include_weekends # <<>>
                  /\ IsFalseText(request.query.include_weekends[1])) =>
                    weekday(WindowDates[WindowIndex(response.body[ListKey(request.path)][j])])
                      \in 0..4
        /\ \A i \in WindowIndex(request.query.start[1])..WindowIndex(request.query.end[1]) :
              (/\ ListPredicate(request.path, WindowDates[i])
               /\ \/ weekday(WindowDates[i]) \in 0..4
                  \/ request.query.include_weekends = <<>>
                  \/ ~IsFalseText(request.query.include_weekends[1])) =>
                 \E j \in 1..Len(response.body[ListKey(request.path)]) :
                    response.body[ListKey(request.path)][j] = isoformat(WindowDates[i])

\* the test's request: the Saturday is a holiday, and is dropped
C8_Witness ==
    /\ pc = "responded"
    /\ request.path = "/api/holidays/range"
    /\ request.query.start = <<T_2018_02_10>>
    /\ request.query.end = <<T_2018_02_12>>
    /\ request.query.include_weekends = <<<<"f", "a", "l", "s", "e">>>>
    /\ is_holiday(Date(2018, 2, 10))
    /\ response.status = 200
    /\ response.body.holidays = <<>>

\* C10: the two trading-day list endpoints answer a request the same
\* whatever its include_weekends is (absent, a boolean text, another text),
\* and never with the boolean parameter's 400.
C10_ListIgnoresIncludeWeekends ==
    (pc = "responded" /\ request.path \in TradingListPaths) =>
        /\ \A include_weekends \in AtMostOnce(BoolTexts) :
              do_GET(request.path,
                     [request.query EXCEPT !.include_weekends = include_weekends]) = response
        /\ HasValidRange(request.query) => response.status = 200

\* a text that is no boolean, answered with the list
C10_Witness ==
    /\ pc = "responded"
    /\ request.path = "/api/a-share/trading-days/list"
    /\ request.query.start = <<T_2018_02_10>>
    /\ request.query.end = <<T_2018_02_12>>
    /\ request.query.include_weekends = <<<<"m", "a", "y", "b", "e">>>>
    /\ response.status = 200
    /\ response.body.a_share_trading_days = <<T_2018_02_12>>

====
